---- MODULE Spec2Model ----
(***************************************************************************)
(* Model of the gemini-mcp server: the startup sequence of index.ts, the   *)
(* connection validation of gemini-client.ts (initGeminiClient with its    *)
(* retry loop and the Promise.race against a timer) and the two handlers   *)
(* of tools/brainstorm.ts (gemini-brainstorm, gemini-brainstorm-synthesis).*)
(*                                                                         *)
(* One action is one turn of the JavaScript event loop: a macrotask (a     *)
(* timer firing, an upstream reply arriving, a request arriving) together  *)
(* with every promise continuation it runs to the next await.              *)
(***************************************************************************)
EXTENDS Naturals, Sequences, FiniteSets

\* ------------------------------------------------------------------ bounds

\* tool invocations the host issues in one run
MaxInvocations == 1
\* history entries a caller passes in the lifecycle specification
MaxHistory == 1
\* history entries a caller passes in the rendering specification
MaxRenderHistory == 2
\* characters by which a long history field exceeds the truncation bound
MaxExcess == 1

\* --------------------------------------------------------- program constants

\* gemini-client.ts: const maxAttempts = 3
maxAttempts == 3
\* brainstorm.ts: substring(0, 500)
TruncLimit == 500

\* messages of the errors the code constructs
MsgTimeout == "Connection timeout"
MsgEmpty == "Failed to connect to Gemini API: empty response"
MsgNoKey == "GEMINI_API_KEY environment variable is required"
MsgNoInput == "Error: Claude's input is required for rounds after the first one"
\* messages of the errors the upstream API may reject a call with
UpstreamErrors == {"E1"}

VARIABLES
    caller,           \* "main": index.ts runs; "direct": initGeminiClient() is called by an importer
    apiKey,           \* process.env.GEMINI_API_KEY is set
    mainPc,           \* position of index.ts
    exitCode,         \* status passed to process.exit, or "none"
    toolsRegistered,  \* registerBrainstormTool(server) has run
    serverConnected,  \* server.connect(transport) has been called
    initPc,           \* position of initGeminiClient
    genAI, geminiProModel, geminiFlashModel,   \* the module globals
    connected, attempts,                       \* the locals of the retry loop
    conn,             \* one record per attempt: its validation call, its timer, its race
    pauses,           \* number of 2-second timers the retry loop has set
    initError,        \* the error initGeminiClient threw
    invocations       \* one record per tool invocation handled by the server

mainVars == <<mainPc, exitCode, toolsRegistered, serverConnected>>
handleVars == <<genAI, geminiProModel, geminiFlashModel>>
initVars == <<initPc, genAI, geminiProModel, geminiFlashModel, connected, attempts,
              conn, pauses, initError>>
envVars == <<caller, apiKey>>
vars == <<caller, apiKey, mainPc, exitCode, toolsRegistered, serverConnected,
          initPc, genAI, geminiProModel, geminiFlashModel, connected, attempts,
          conn, pauses, initError, invocations>>

NoError == [kind |-> "none", message |-> ""]

\* ------------------------------------------------------- connection manager

\* The spec's ConnectionState, read off the position of initGeminiClient.
ConnectionState ==
    CASE initPc = "idle" -> "Uninitialized"
      [] initPc \in {"race", "pause"} -> "Connecting"
      [] initPc = "done" -> "Ready"
      [] initPc = "thrown" -> "Failed"

\* The process is alive: its timers fire and its promises settle.
Alive == mainPc # "exited"

\* Mutant of MainContinues: the catch block logs the failure and main goes on
\* to register the tools and connect the server.
MainContinuesNoExit(ok) ==
    IF caller = "main"
    THEN /\ mainPc' = "serving"
         /\ toolsRegistered' = TRUE
         /\ serverConnected' = TRUE
         /\ exitCode' = exitCode
    ELSE UNCHANGED mainVars

\* index.ts main(): what follows `await initGeminiClient()`.  On success the
\* server is created, the tools are registered, server.connect is called on
\* the stdio transport (it resolves in the same turn) and the signal handlers
\* are set; on a throw the catch block calls process.exit(1).
MainContinues(ok) ==
    IF caller = "main"
    THEN IF ok
         THEN /\ mainPc' = "serving"
              /\ toolsRegistered' = TRUE
              /\ serverConnected' = TRUE
              /\ exitCode' = exitCode
         ELSE /\ mainPc' = "exited"
              /\ exitCode' = 1
              /\ UNCHANGED <<toolsRegistered, serverConnected>>
    ELSE UNCHANGED mainVars

\* One pass of `while (!connected && attempts < maxAttempts)` up to the await
\* of Promise.race: attempts++, a 10-second timer, a validation call.
LoopHead ==
    IF ~connected /\ attempts < maxAttempts
    THEN /\ attempts' = attempts + 1
         /\ conn' = Append(conn, [call |-> "pending", timer |-> "pending", race |-> "pending"])
         /\ initPc' = "race"
         /\ UNCHANGED <<mainVars, initError>>
    ELSE /\ initPc' = "done"
         /\ MainContinues(TRUE)
         /\ UNCHANGED <<attempts, conn, initError>>

\* Mutant of InitGeminiClient: the credential is checked after the client and
\* the model handles have been constructed.
InitGeminiClientLateCheck ==
    /\ initPc = "idle"
    /\ genAI' = "client"
    /\ geminiProModel' = "pro"
    /\ geminiFlashModel' = "flash"
    /\ IF ~apiKey
       THEN /\ initPc' = "thrown"
            /\ initError' = [kind |-> "MissingCredential", message |-> MsgNoKey]
            /\ UNCHANGED <<connected, attempts, conn, pauses>>
       ELSE /\ connected' = FALSE
            /\ attempts' = 1
            /\ conn' = <<[call |-> "pending", timer |-> "pending", race |-> "pending"]>>
            /\ initPc' = "race"
            /\ UNCHANGED <<initError, pauses>>

\* initGeminiClient() from its call to its first await (or its throw when the
\* credential is absent).  The caller's own state is the caller's to set.
InitGeminiClient ==
    /\ initPc = "idle"
    /\ IF ~apiKey
       THEN /\ initPc' = "thrown"
            /\ initError' = [kind |-> "MissingCredential", message |-> MsgNoKey]
            /\ UNCHANGED <<handleVars, connected, attempts, conn, pauses>>
       ELSE /\ genAI' = "client"
            /\ geminiProModel' = "pro"
            /\ geminiFlashModel' = "flash"
            /\ connected' = FALSE
            /\ attempts' = 1
            /\ conn' = <<[call |-> "pending", timer |-> "pending", race |-> "pending"]>>
            /\ initPc' = "race"
            /\ UNCHANGED <<initError, pauses>>

\* Mutant of ErrorMessageOf: the message of the first failure is kept.
ErrorMessageOfFirst(outcome) ==
    IF conn[1].race = "falsy" THEN MsgEmpty ELSE conn[1].race

\* The message the catch block of the retry loop extracts from what the race
\* settled with.
ErrorMessageOf(outcome) ==
    IF outcome = "falsy" THEN MsgEmpty ELSE outcome

\* Mutant of AfterRace: the budget test of the catch block is off by one.
AfterRaceOffByOne(outcome) ==
    IF outcome = "truthy"
    THEN /\ connected' = TRUE
         /\ initPc' = "done"
         /\ MainContinues(TRUE)
         /\ UNCHANGED <<attempts, pauses, initError>>
    ELSE IF attempts > maxAttempts
         THEN /\ initPc' = "thrown"
              /\ initError' = [kind |-> "ConnectionExhausted",
                               message |-> ErrorMessageOf(outcome)]
              /\ MainContinues(FALSE)
              /\ UNCHANGED <<connected, attempts, pauses>>
         ELSE /\ initPc' = "pause"
              /\ pauses' = pauses + 1
              /\ UNCHANGED <<connected, attempts, initError, mainVars>>

\* Mutant of AfterRace: the `if (!result)` test is missing, so that an empty
\* result connects.
AfterRaceNoEmptyCheck(outcome) ==
    IF outcome \in {"truthy", "falsy"}
    THEN /\ connected' = TRUE
         /\ initPc' = "done"
         /\ MainContinues(TRUE)
         /\ UNCHANGED <<attempts, pauses, initError>>
    ELSE IF attempts >= maxAttempts
         THEN /\ initPc' = "thrown"
              /\ initError' = [kind |-> "ConnectionExhausted",
                               message |-> ErrorMessageOf(outcome)]
              /\ MainContinues(FALSE)
              /\ UNCHANGED <<connected, attempts, pauses>>
         ELSE /\ initPc' = "pause"
              /\ pauses' = pauses + 1
              /\ UNCHANGED <<connected, attempts, initError, mainVars>>

\* Mutant of AfterRace: the catch block waits its 2 seconds before it tests
\* the budget, so that a pause also follows the last failed attempt.
AfterRacePauseFirst(outcome) ==
    IF outcome = "truthy"
    THEN /\ connected' = TRUE
         /\ initPc' = "done"
         /\ MainContinues(TRUE)
         /\ UNCHANGED <<attempts, pauses, initError>>
    ELSE /\ pauses' = pauses + 1
         /\ IF attempts >= maxAttempts
            THEN /\ initPc' = "thrown"
                 /\ initError' = [kind |-> "ConnectionExhausted",
                                  message |-> ErrorMessageOf(outcome)]
                 /\ MainContinues(FALSE)
                 /\ UNCHANGED <<connected, attempts>>
            ELSE /\ initPc' = "pause"
                 /\ UNCHANGED <<connected, attempts, initError, mainVars>>

\* The code after `await Promise.race(...)` once the race has settled with
\* `outcome`: "truthy", "falsy", an upstream error or MsgTimeout.
AfterRace(outcome) ==
    IF outcome = "truthy"
    THEN \* connected = true; the loop condition fails; the function returns
         /\ connected' = TRUE
         /\ initPc' = "done"
         /\ MainContinues(TRUE)
         /\ UNCHANGED <<attempts, pauses, initError>>
    ELSE \* catch (error)
         IF attempts >= maxAttempts
         THEN /\ initPc' = "thrown"
              /\ initError' = [kind |-> "ConnectionExhausted",
                               message |-> ErrorMessageOf(outcome)]
              /\ MainContinues(FALSE)
              /\ UNCHANGED <<connected, attempts, pauses>>
         ELSE /\ initPc' = "pause"
              /\ pauses' = pauses + 1
              /\ UNCHANGED <<connected, attempts, initError, mainVars>>

\* Mutant of Racing: whatever settles while initGeminiClient awaits a race is
\* taken as the result of that race, also a promise of an earlier attempt.
RacingAny(a) == initPc = "race"

\* Mutant of Racing: the promises of the last attempt act on the retry loop
\* whenever they settle, also after its race has been decided.
RacingLast(a) == a = Len(conn)

\* Attempt a is the one initGeminiClient is awaiting the race of.
Racing(a) == initPc = "race" /\ a = Len(conn) /\ conn[a].race = "pending"

\* The validation call of attempt a settles with `outcome`.  Promise.race
\* takes it only if it is the first of the two to settle.
CallSettles(a, outcome) ==
    /\ Alive
    /\ a \in 1..Len(conn)
    /\ conn[a].call = "pending"
    /\ IF Racing(a)
       THEN /\ conn' = [conn EXCEPT ![a].call = outcome, ![a].race = outcome]
            /\ AfterRace(outcome)
       ELSE /\ conn' = [conn EXCEPT ![a].call = outcome]
            /\ UNCHANGED <<initPc, connected, attempts, pauses, initError, mainVars>>
    /\ UNCHANGED <<envVars, handleVars, invocations>>

\* Mutant of TimerFires: the loop awaits connectionPromise alone, so that the
\* timer's rejection reaches nobody.
TimerFiresUnraced(a) ==
    /\ Alive
    /\ a \in 1..Len(conn)
    /\ conn[a].timer = "pending"
    /\ conn' = [conn EXCEPT ![a].timer = "fired"]
    /\ UNCHANGED <<initPc, connected, attempts, pauses, initError, mainVars>>
    /\ UNCHANGED <<envVars, handleVars, invocations>>

\* The 10-second timer of attempt a fires and rejects timeoutPromise.
TimerFires(a) ==
    /\ Alive
    /\ a \in 1..Len(conn)
    /\ conn[a].timer = "pending"
    /\ IF Racing(a)
       THEN /\ conn' = [conn EXCEPT ![a].timer = "fired", ![a].race = MsgTimeout]
            /\ AfterRace(MsgTimeout)
       ELSE /\ conn' = [conn EXCEPT ![a].timer = "fired"]
            /\ UNCHANGED <<initPc, connected, attempts, pauses, initError, mainVars>>
    /\ UNCHANGED <<envVars, handleVars, invocations>>

\* The 2-second timer fires: the loop goes round.
PauseElapsed ==
    /\ Alive
    /\ initPc = "pause"
    /\ LoopHead
    /\ UNCHANGED <<envVars, handleVars, connected, pauses, invocations>>

\* ------------------------------------------------------------------- texts

\* A text is a sequence of characters.  A character of an input is tagged
\* with the field it belongs to (f), the history entry of that field (e, 0
\* outside a history) and its position in the field (i), so that a rendered
\* prompt shows which characters of which field it holds.
Text(f, e, n) == [p \in 1..n |-> [f |-> f, e |-> e, i |-> p]]
\* A piece of literal text of a template.
Lit(s) == <<[f |-> s, e |-> 0, i |-> 0]>>
\* A number interpolated into a template.
Num(n) == <<[f |-> "number", e |-> 0, i |-> n]>>
\* The elision marker the templates write after a history field.
Marker == Lit("...")

Min(a, b) == IF a < b THEN a ELSE b

\* JavaScript's String.prototype.substring(start, end), 0 <= start <= end.
Substring(s, start, end) == SubSeq(s, start + 1, Min(end, Len(s)))

\* Array.prototype.join over rendered entries.
RECURSIVE Join(_, _)
Join(parts, sep) ==
    IF parts = <<>> THEN <<>>
    ELSE IF Len(parts) = 1 THEN parts[1]
    ELSE parts[1] \o sep \o Join(Tail(parts), sep)

\* An optional string argument: undefined, or a string.
Undefined == [defined |-> FALSE, text |-> <<>>]
Some(t) == [defined |-> TRUE, text |-> t]
\* JavaScript's `!x` for an optional string: undefined and "" are falsy.
Falsy(x) == ~x.defined \/ x.text = <<>>

\* ------------------------------------------------------ session orchestrator

\* Mutant of BrainstormEntryText: the model text is not cut.
BrainstormEntryTextUncut(entry) ==
    Lit("\nRound ") \o Num(entry.round) \o Lit(":\n- Claude: ")
      \o Substring(entry.claudeInput, 0, TruncLimit) \o Marker
      \o Lit("\n- Gemini: ")
      \o entry.geminiResponse \o Marker
      \o Lit("\n")

\* gemini-brainstorm: one entry of historyText.
BrainstormEntryText(entry) ==
    Lit("\nRound ") \o Num(entry.round) \o Lit(":\n- Claude: ")
      \o Substring(entry.claudeInput, 0, TruncLimit) \o Marker
      \o Lit("\n- Gemini: ")
      \o Substring(entry.geminiResponse, 0, TruncLimit) \o Marker
      \o Lit("\n")

\* gemini-brainstorm: historyText.
BrainstormHistoryText(history) ==
    Join([k \in 1..Len(history) |-> BrainstormEntryText(history[k])], Lit("\n"))

\* Mutant of InitialPrompt: the problem statement is not interpolated.
InitialPromptNoProblem(prompt) ==
    Lit("initial:head") \o Lit("initial:guidance")

\* gemini-brainstorm: initialPrompt.
InitialPrompt(prompt) ==
    Lit("initial:head") \o prompt \o Lit("initial:guidance")

\* Mutant of CollaborationPrompt: the current caller input is cut like a
\* history field.
CollaborationPromptCutInput(prompt, round, claudeInput, history) ==
    Lit("collab:head") \o Num(round) \o Lit("collab:request") \o prompt
      \o Lit("collab:rule")
      \o (IF Len(history) > 0
          THEN Lit("Here's a summary of the previous rounds:\n")
                 \o BrainstormHistoryText(history)
          ELSE <<>>)
      \o Lit("Claude's latest perspective:\n")
      \o Substring(claudeInput, 0, TruncLimit) \o Marker
      \o Lit("Based on Claude's perspective")
      \o (IF Len(history) > 0 THEN Lit(" and the previous discussion") ELSE <<>>)
      \o Lit("collab:instructions")

\* gemini-brainstorm: collaborationPrompt.
CollaborationPrompt(prompt, round, claudeInput, history) ==
    Lit("collab:head") \o Num(round) \o Lit("collab:request") \o prompt
      \o Lit("collab:rule")
      \o (IF Len(history) > 0
          THEN Lit("Here's a summary of the previous rounds:\n")
                 \o BrainstormHistoryText(history)
          ELSE <<>>)
      \o Lit("Claude's latest perspective:\n") \o claudeInput
      \o Lit("Based on Claude's perspective")
      \o (IF Len(history) > 0 THEN Lit(" and the previous discussion") ELSE <<>>)
      \o Lit("collab:instructions")

\* gemini-brainstorm-synthesis: one entry of historyText.
SynthesisEntryText(entry) ==
    Lit("\nRound ") \o Num(entry.round) \o Lit(":\n- Claude: ")
      \o Substring(entry.claudeInput, 0, TruncLimit) \o Marker
      \o Lit("\n- Gemini: ")
      \o Substring(entry.geminiResponse, 0, TruncLimit) \o Marker
      \o Lit("\n")

\* gemini-brainstorm-synthesis: historyText.
SynthesisHistoryText(history) ==
    Join([k \in 1..Len(history) |-> SynthesisEntryText(history[k])], Lit("\n"))

\* gemini-brainstorm-synthesis: synthesisPrompt.
SynthesisPrompt(prompt, history) ==
    Lit("synth:head") \o prompt
      \o Lit("Here's the complete conversation history:\n")
      \o SynthesisHistoryText(history)
      \o Lit("synth:instructions")

\* The payloads a handler returns.
Success(text) == [isError |-> FALSE, text |-> text]
Failure(text) == [isError |-> TRUE, text |-> text]
NoResult == [isError |-> FALSE, text |-> Lit("pending")]

\* The server dispatches requests to the registered handlers.
Accepting ==
    /\ Alive
    /\ toolsRegistered
    /\ serverConnected

\* What the upstream call of a handler has settled with.
Pending == [kind |-> "pending", value |-> <<>>]
Replied(text) == [kind |-> "text", value |-> text]
Rejected(message) == [kind |-> "error", value |-> Lit(message)]

\* generateWithGeminiPro(p) called by a handler whose invocation record is
\* inv: geminiProModel.generateContent(p) is sent, or, the handle being
\* undefined, throws a TypeError that the handler's catch turns into a result.
GenerateWithGeminiPro(inv, p) ==
    IF geminiProModel = "undefined"
    THEN [inv EXCEPT !.state = "returned",
                     !.result = Failure(Lit("Error: ") \o Lit("TypeError"))]
    ELSE [inv EXCEPT !.state = "awaiting",
                     !.sent = Append(inv.sent, [model |-> geminiProModel, prompt |-> p,
                                                connection |-> ConnectionState,
                                                outcome |-> Pending])]

NewInvocation(tool, prompt, round, claudeInput, history) ==
    [tool |-> tool, prompt |-> prompt, round |-> round, claudeInput |-> claudeInput,
     history |-> history, state |-> "running", sent |-> <<>>, result |-> NoResult]

\* Mutant of Brainstorm: the handler keeps the history of the request before
\* and renders it ahead of the history it is given.
BrainstormRemembers(prompt, round, claudeInput, history) ==
    /\ Accepting
    /\ LET inv == NewInvocation("gemini-brainstorm", prompt, round, claudeInput, history)
           kept == IF invocations = <<>> THEN <<>>
                   ELSE invocations[Len(invocations)].history
       IN invocations' = Append(invocations,
            IF round = 1
            THEN GenerateWithGeminiPro(inv, InitialPrompt(prompt))
            ELSE IF Falsy(claudeInput)
                 THEN [inv EXCEPT !.state = "returned", !.result = Failure(Lit(MsgNoInput))]
                 ELSE GenerateWithGeminiPro(inv,
                        CollaborationPrompt(prompt, round, claudeInput.text, kept \o history)))
    /\ UNCHANGED <<envVars, mainVars, initVars>>

\* Mutant of Brainstorm: the test of claudeInput is missing.
BrainstormNoInputCheck(prompt, round, claudeInput, history) ==
    /\ Accepting
    /\ LET inv == NewInvocation("gemini-brainstorm", prompt, round, claudeInput, history)
       IN invocations' = Append(invocations,
            IF round = 1
            THEN GenerateWithGeminiPro(inv, InitialPrompt(prompt))
            ELSE GenerateWithGeminiPro(inv,
                   CollaborationPrompt(prompt, round, claudeInput.text, history)))
    /\ UNCHANGED <<envVars, mainVars, initVars>>

\* The gemini-brainstorm handler from the request to its return or its await.
Brainstorm(prompt, round, claudeInput, history) ==
    /\ Accepting
    /\ LET inv == NewInvocation("gemini-brainstorm", prompt, round, claudeInput, history)
       IN invocations' = Append(invocations,
            IF round = 1
            THEN GenerateWithGeminiPro(inv, InitialPrompt(prompt))
            ELSE IF Falsy(claudeInput)
                 THEN [inv EXCEPT !.state = "returned", !.result = Failure(Lit(MsgNoInput))]
                 ELSE GenerateWithGeminiPro(inv,
                        CollaborationPrompt(prompt, round, claudeInput.text, history)))
    /\ UNCHANGED <<envVars, mainVars, initVars>>

\* The gemini-brainstorm-synthesis handler from the request to its await.
Synthesis(prompt, history) ==
    /\ Accepting
    /\ LET inv == NewInvocation("gemini-brainstorm-synthesis", prompt, 0, Undefined, history)
       IN invocations' = Append(invocations,
            GenerateWithGeminiPro(inv, SynthesisPrompt(prompt, history)))
    /\ UNCHANGED <<envVars, mainVars, initVars>>

\* Mutant of UpstreamReplies: the reply is kept in a variable shared by the
\* handlers, so that every waiting handler returns it.
UpstreamRepliesShared(id, text) ==
    /\ Alive
    /\ id \in 1..Len(invocations)
    /\ invocations[id].state = "awaiting"
    /\ invocations' =
         [j \in 1..Len(invocations) |->
            IF invocations[j].state = "awaiting"
            THEN [invocations[j] EXCEPT !.state = "returned",
                                        !.sent[1].outcome = Replied(text),
                                        !.result = Success(text)]
            ELSE invocations[j]]
    /\ UNCHANGED <<envVars, mainVars, initVars>>

\* The upstream call of invocation id resolves: the handler returns its text.
UpstreamReplies(id, text) ==
    /\ Alive
    /\ id \in 1..Len(invocations)
    /\ invocations[id].state = "awaiting"
    /\ invocations' = [invocations EXCEPT ![id].state = "returned",
                                          ![id].sent[1].outcome = Replied(text),
                                          ![id].result = Success(text)]
    /\ UNCHANGED <<envVars, mainVars, initVars>>

\* Mutant of UpstreamFails: generateWithGeminiPro sends the prompt a second
\* time when the first call rejects.
UpstreamFailsRetry(id, message) ==
    /\ Alive
    /\ id \in 1..Len(invocations)
    /\ invocations[id].state = "awaiting"
    /\ invocations' =
         IF Len(invocations[id].sent) < 2
         THEN [invocations EXCEPT ![id].sent =
                 <<[invocations[id].sent[1] EXCEPT !.outcome = Pending],
                   [invocations[id].sent[1] EXCEPT !.outcome = Rejected(message)]>>]
         ELSE [invocations EXCEPT ![id].state = "returned",
                                  ![id].sent[1].outcome = Rejected(message),
                                  ![id].result = Failure(Lit("Error: ") \o Lit(message))]
    /\ UNCHANGED <<envVars, mainVars, initVars>>

\* Mutant of UpstreamFails: the handler has no catch block; the rejection
\* escapes it and ends the process.
UpstreamFailsCrash(id, message) ==
    /\ Alive
    /\ id \in 1..Len(invocations)
    /\ invocations[id].state = "awaiting"
    /\ invocations' = [invocations EXCEPT ![id].state = "thrown",
                                          ![id].sent[1].outcome = Rejected(message)]
    /\ mainPc' = "exited"
    /\ exitCode' = 1
    /\ UNCHANGED <<toolsRegistered, serverConnected, envVars, initVars>>

\* The upstream call of invocation id rejects: the handler's catch block.
UpstreamFails(id, message) ==
    /\ Alive
    /\ id \in 1..Len(invocations)
    /\ invocations[id].state = "awaiting"
    /\ invocations' = [invocations EXCEPT ![id].state = "returned",
                         ![id].sent[1].outcome = Rejected(message),
                         ![id].result = Failure(Lit("Error: ") \o Lit(message))]
    /\ UNCHANGED <<envVars, mainVars, initVars>>

\* ------------------------------------------------------------ request inputs

\* The problem statement of a request.
Problem == Text("prompt", 0, 1)

\* History entry k with fields of the given lengths.
Entry(k, lc, lg) ==
    [round |-> k, claudeInput |-> Text("claudeInput", k, lc),
     geminiResponse |-> Text("geminiResponse", k, lg)]

\* The histories of at most n entries whose field lengths are in L.
Histories(n, L) ==
    UNION {{[k \in 1..m |-> Entry(k, ls[k][1], ls[k][2])] : ls \in [1..m -> L \X L]}
           : m \in 0..n}

\* The replies the upstream model gives.
Replies == {Lit("A")}

\* Requests of the lifecycle specification: short texts.
Rounds == {1, 2}
ShortHistories == Histories(MaxHistory, {1})
CallerInputs == {Undefined, Some(<<>>), Some(Text("claudeInput", 0, 1))}

\* ------------------------------------------------------------------ index.ts

\* Mutant of MainStart: initGeminiClient() is not awaited; main registers the
\* tools and connects the server in its first turn.
MainStartNoAwait ==
    /\ caller = "main"
    /\ mainPc = "start"
    /\ IF ~apiKey
       THEN /\ mainPc' = "exited"
            /\ exitCode' = 1
            /\ UNCHANGED <<toolsRegistered, serverConnected, initVars>>
       ELSE /\ mainPc' = "serving"
            /\ toolsRegistered' = TRUE
            /\ serverConnected' = TRUE
            /\ UNCHANGED exitCode
            /\ InitGeminiClient
    /\ UNCHANGED <<envVars, invocations>>

\* index.ts top level: the GEMINI_API_KEY check, then main() up to its await.
MainStart ==
    /\ caller = "main"
    /\ mainPc = "start"
    /\ IF ~apiKey
       THEN /\ mainPc' = "exited"
            /\ exitCode' = 1
            /\ UNCHANGED <<toolsRegistered, serverConnected, initVars>>
       ELSE /\ mainPc' = "awaitInit"
            /\ UNCHANGED <<exitCode, toolsRegistered, serverConnected>>
            /\ InitGeminiClient
    /\ UNCHANGED <<envVars, invocations>>

\* An importer other than index.ts calls initGeminiClient().
DirectCall ==
    /\ caller = "direct"
    /\ InitGeminiClient
    /\ UNCHANGED <<mainVars, envVars, invocations>>

\* SIGINT or SIGTERM: server.close(), process.exit(0).
Signal ==
    /\ mainPc = "serving"
    /\ mainPc' = "exited"
    /\ exitCode' = 0
    /\ UNCHANGED <<toolsRegistered, serverConnected, envVars, initVars, invocations>>

Init ==
    /\ caller \in {"main", "direct"}
    /\ apiKey \in BOOLEAN
    /\ mainPc = IF caller = "main" THEN "start" ELSE "none"
    /\ exitCode = "none"
    /\ toolsRegistered = FALSE
    /\ serverConnected = FALSE
    /\ initPc = "idle"
    /\ genAI = "undefined"
    /\ geminiProModel = "undefined"
    /\ geminiFlashModel = "undefined"
    /\ connected = FALSE
    /\ attempts = 0
    /\ conn = <<>>
    /\ pauses = 0
    /\ initError = NoError
    /\ invocations = <<>>

CallOutcomes == {"truthy", "falsy"} \cup UpstreamErrors

Next ==
    \/ MainStart
    \/ DirectCall
    \/ \E a \in 1..maxAttempts, o \in CallOutcomes : CallSettles(a, o)
    \/ \E a \in 1..maxAttempts : TimerFires(a)
    \/ PauseElapsed
    \/ Signal
    \/ /\ Len(invocations) < MaxInvocations
       /\ \E r \in Rounds, c \in CallerInputs, h \in ShortHistories :
            Brainstorm(Problem, r, c, h)
    \/ /\ Len(invocations) < MaxInvocations
       /\ \E h \in ShortHistories : Synthesis(Problem, h)
    \/ \E id \in 1..MaxInvocations, t \in Replies : UpstreamReplies(id, t)
    \/ \E id \in 1..MaxInvocations, m \in UpstreamErrors : UpstreamFails(id, m)

Spec == Init /\ [][Next]_vars

\* ------------------------------------------------- the rendering specification

\* Requests with history fields around the truncation bound, handled one at a
\* time by a server that initialized on its first attempt.
LongLengths == {1, TruncLimit, TruncLimit + MaxExcess}
LongHistories == Histories(MaxRenderHistory, LongLengths)
LongCallerInputs == {Undefined, Some(Text("claudeInput", 0, TruncLimit + MaxExcess))}

RenderInit ==
    /\ caller = "main"
    /\ apiKey = TRUE
    /\ mainPc = "serving"
    /\ exitCode = "none"
    /\ toolsRegistered = TRUE
    /\ serverConnected = TRUE
    /\ initPc = "done"
    /\ genAI = "client"
    /\ geminiProModel = "pro"
    /\ geminiFlashModel = "flash"
    /\ connected = TRUE
    /\ attempts = 1
    /\ conn = <<[call |-> "truthy", timer |-> "pending", race |-> "truthy"]>>
    /\ pauses = 0
    /\ initError = NoError
    /\ invocations = <<>>

RenderNext ==
    \/ /\ invocations = <<>>
       /\ \E r \in Rounds, c \in LongCallerInputs, h \in LongHistories :
            Brainstorm(Problem, r, c, h)
    \/ /\ invocations = <<>>
       /\ \E h \in LongHistories : Synthesis(Problem, h)
    \/ \E t \in Replies : UpstreamReplies(1, t)
    \/ \E m \in UpstreamErrors : UpstreamFails(1, m)

SpecRender == RenderInit /\ [][RenderNext]_vars

\* ----------------------------------------------- the connection specification

\* index.ts and initGeminiClient alone, before any request.  The timers of
\* the event loop fire: the 10-second timer of each attempt and the 2-second
\* pause.  Nothing makes the upstream API settle a validation call.
ConnectNext ==
    \/ MainStart
    \/ DirectCall
    \/ \E a \in 1..maxAttempts, o \in CallOutcomes : CallSettles(a, o)
    \/ \E a \in 1..maxAttempts : TimerFires(a)
    \/ PauseElapsed
    \/ Signal

SpecConnect ==
    /\ Init
    /\ [][ConnectNext]_vars
    /\ WF_vars(PauseElapsed)
    /\ \A a \in 1..maxAttempts : WF_vars(TimerFires(a))

\* -------------------------------------------------- the serving specification

\* Several requests in flight on a server that initialized on its first
\* attempt, the upstream model giving one of two replies.
MaxServeInvocations == 2
ServeReplies == {Lit("A"), Lit("B")}
ServeCallerInputs == {Undefined, Some(Text("claudeInput", 0, 1))}

ServeNext ==
    \/ /\ Len(invocations) < MaxServeInvocations
       /\ \E r \in Rounds, c \in ServeCallerInputs, h \in ShortHistories :
            Brainstorm(Problem, r, c, h)
    \/ /\ Len(invocations) < MaxServeInvocations
       /\ \E h \in ShortHistories : Synthesis(Problem, h)
    \/ \E id \in 1..MaxServeInvocations, t \in ServeReplies : UpstreamReplies(id, t)
    \/ \E id \in 1..MaxServeInvocations, m \in UpstreamErrors : UpstreamFails(id, m)
    \/ TimerFires(1)
    \/ Signal

SpecServe == RenderInit /\ [][ServeNext]_vars

\* The rendering specification starts in a state the lifecycle reaches.
RenderInitUnreached == ~RenderInit

\* ------------------------------------------------------------------- claims

Attempts == 1..Len(conn)
\* Attempt a has ended in failure: its race settled with something not truthy.
AttemptFailed(a) == conn[a].race \notin {"pending", "truthy"}
AllFailed(S) == \A a \in S : AttemptFailed(a)

\* C1: retry bound of initGeminiClient.  A validation call is issued once per
\* attempt and never a fourth time; no call is issued after an attempt has
\* succeeded; N < 3 failed attempts followed by a successful one end the
\* function successfully after exactly N + 1 calls; three failed attempts
\* end it with ConnectionExhausted after exactly 3 calls.
C1_RetryBound ==
    /\ Len(conn) <= maxAttempts
    /\ \A a \in Attempts : conn[a].race = "truthy" => a = Len(conn)
    /\ \A a \in Attempts : a < Len(conn) => AttemptFailed(a)
    /\ (Len(conn) > 0 /\ conn[Len(conn)].race = "truthy")
         => /\ initPc = "done"
            /\ initError = NoError
            /\ Cardinality({a \in Attempts : AttemptFailed(a)}) + 1 = Len(conn)
    /\ (Len(conn) = maxAttempts /\ AllFailed(Attempts))
         => /\ initPc = "thrown"
            /\ initError.kind = "ConnectionExhausted"
    /\ initPc = "done" => conn[Len(conn)].race = "truthy"
    /\ initError.kind = "ConnectionExhausted"
         => Len(conn) = maxAttempts /\ AllFailed(Attempts)

\* C1 happens: two failed attempts, then a successful third.
C1_Witness ==
    /\ initPc = "done"
    /\ Len(conn) = 3
    /\ AttemptFailed(1) /\ AttemptFailed(2)

\* What a late settling of a validation call must leave alone.
raceOutcomes == [a \in Attempts |-> conn[a].race]
initControl == <<initPc, connected, attempts, pauses, initError, mainPc, exitCode,
                 toolsRegistered, serverConnected, Len(conn)>>

\* C2: the timeout is a hard cancellation boundary.  When the timer of an
\* attempt fires while its validation call is still pending, the attempt is
\* recorded as failed by timeout and the connection does not become Ready;
\* that record never changes; and when the call settles afterwards, whatever
\* its result and whenever it arrives, the step changes neither the position
\* of initGeminiClient, nor connected, nor the attempt counter, nor the
\* outcome of any attempt, nor the state of index.ts.
C2_TimeoutIsFinal ==
    [][\A a \in Attempts :
         /\ (conn[a].race = "pending" /\ conn[a].call = "pending"
               /\ conn[a].timer = "pending" /\ conn'[a].timer = "fired")
              => /\ conn'[a].race = MsgTimeout
                 /\ ~connected'
                 /\ initPc' \in {"pause", "thrown"}
         /\ conn[a].race = MsgTimeout
              => /\ conn'[a].race = MsgTimeout
                 /\ (conn'[a].call # conn[a].call
                       => /\ initControl' = initControl
                          /\ raceOutcomes' = raceOutcomes)
      ]_vars

\* C2 happens: the call of a timed-out attempt resolved with a result while a
\* later attempt was racing.
C2_Witness ==
    \E a \in Attempts :
        /\ a < Len(conn)
        /\ conn[a].race = MsgTimeout
        /\ conn[a].call = "truthy"
        /\ initPc = "race"

\* C3: classification of an attempt.  The connection becomes Ready exactly in
\* a step in which the validation call of the current attempt resolves truthy
\* while that attempt's timer is pending; a step in which the current call
\* rejects or resolves falsy, or in which the current timer fires first,
\* fails the attempt (the connection is Connecting or Failed afterwards); the
\* attempt counter equals the number of attempts started and moves by one,
\* only when an attempt starts.
C3_Classification ==
    /\ [](attempts = Len(conn))
    /\ [](connected <=> (Len(conn) > 0 /\ conn[Len(conn)].race = "truthy"))
    /\ [](ConnectionState = "Ready" <=> connected)
    /\ [][/\ (ConnectionState # "Ready" /\ ConnectionState' = "Ready")
               => \E a \in Attempts :
                     /\ a = Len(conn)
                     /\ conn[a].call = "pending" /\ conn'[a].call = "truthy"
                     /\ conn[a].timer = "pending" /\ conn'[a].timer = "pending"
          /\ \A a \in Attempts :
               (conn[a].race = "pending" /\ conn'[a].race # "pending")
                 => /\ attempts' = attempts
                    /\ IF conn'[a].call = "truthy"
                       THEN ConnectionState' = "Ready"
                       ELSE /\ ConnectionState' \in {"Connecting", "Failed"}
                            /\ AttemptFailed(a)'
          /\ attempts' # attempts
               => attempts' = attempts + 1 /\ Len(conn') = Len(conn) + 1
       ]_vars

\* C3 happens: one attempt failed by rejection, one by an empty result, and
\* the third succeeded.
C3_Witness ==
    /\ Len(conn) = 3
    /\ conn[1].race \in UpstreamErrors
    /\ conn[2].race = "falsy"
    /\ conn[3].race = "truthy"
    /\ ConnectionState = "Ready"

\* The message of the failure attempt a ended in.
FailureMessage(a) ==
    CASE conn[a].race = "falsy" -> MsgEmpty
      [] conn[a].race = MsgTimeout -> MsgTimeout
      [] OTHER -> conn[a].race

\* C4: the ConnectionExhausted error embeds the message of the last (third)
\* failed attempt.
C4_LastMessage ==
    initError.kind = "ConnectionExhausted"
      => /\ Len(conn) = maxAttempts
         /\ AttemptFailed(maxAttempts)
         /\ initError.message = FailureMessage(maxAttempts)

\* C4 happens: three attempts failed in three different ways.
C4_Witness ==
    /\ initError.kind = "ConnectionExhausted"
    /\ Len(conn) = 3
    /\ conn[1].race = MsgTimeout
    /\ conn[2].race = "falsy"
    /\ conn[3].race \in UpstreamErrors

Invocations == 1..Len(invocations)

\* C5: no generation before initialization has completed.  The tools are
\* registered and the server connected only while the connection is Ready, a
\* request is handled only then, and every upstream call of a handler was
\* sent to a constructed handle while the connection was Ready.
C5_ReadyBeforeGenerate ==
    /\ (toolsRegistered \/ serverConnected \/ invocations # <<>>)
         => ConnectionState = "Ready"
    /\ \A id \in Invocations : \A k \in 1..Len(invocations[id].sent) :
         /\ invocations[id].sent[k].connection = "Ready"
         /\ invocations[id].sent[k].model = "pro"

\* C5 happens: a handler has sent a prompt upstream.
C5_Witness ==
    \E id \in Invocations : invocations[id].sent # <<>>

\* C6: an initialization failure is terminal.  Under index.ts, once
\* initGeminiClient has thrown, or the credential check of index.ts has
\* failed, the process has exited with status 1, no tool is registered, the
\* server is not connected and no request was handled; and a Failed
\* connection stays Failed.
C6_FailureIsTerminal ==
    /\ []((caller = "main" /\ (ConnectionState = "Failed" \/ (~apiKey /\ mainPc # "start")))
            => /\ mainPc = "exited"
               /\ exitCode = 1
               /\ ~toolsRegistered
               /\ ~serverConnected
               /\ invocations = <<>>)
    /\ [][ConnectionState = "Failed"
            => /\ ConnectionState' = "Failed"
               /\ ~toolsRegistered' /\ ~serverConnected' /\ invocations' = <<>>]_vars

\* C6 happens: index.ts has exited after the retry budget was spent.
C6_Witness ==
    /\ caller = "main"
    /\ initError.kind = "ConnectionExhausted"
    /\ mainPc = "exited"

\* C7: without the credential, initGeminiClient throws MissingCredential at
\* once: no handle is constructed, no validation call is issued, no pause is
\* taken and the attempt counter stays 0.
C7_MissingCredential ==
    ~apiKey
      => /\ genAI = "undefined"
         /\ geminiProModel = "undefined"
         /\ geminiFlashModel = "undefined"
         /\ conn = <<>>
         /\ attempts = 0
         /\ pauses = 0
         /\ initPc \in {"idle", "thrown"}
         /\ initPc = "thrown" => initError.kind = "MissingCredential"
         /\ (caller = "direct" /\ initPc = "idle") => initError = NoError

\* C7 happens: initGeminiClient was called without the credential.
C7_Witness ==
    /\ ~apiKey
    /\ initPc = "thrown"
    /\ initError = [kind |-> "MissingCredential", message |-> MsgNoKey]

\* C8: a gemini-brainstorm request of a round after the first without
\* claudeInput has returned, whatever its history, an error payload (the
\* error flag set, the missing-input message) and has sent nothing upstream.
C8_MissingInput ==
    \A id \in Invocations :
        LET inv == invocations[id] IN
        (inv.tool = "gemini-brainstorm" /\ inv.round > 1 /\ ~inv.claudeInput.defined)
          => /\ inv.state = "returned"
             /\ inv.result = Failure(Lit(MsgNoInput))
             /\ inv.sent = <<>>

\* C8 happens: round 2 without claudeInput, with a history of one round.
C8_Witness ==
    \E id \in Invocations :
        /\ invocations[id].tool = "gemini-brainstorm"
        /\ invocations[id].round = 2
        /\ ~invocations[id].claudeInput.defined
        /\ Len(invocations[id].history) = 1
        /\ invocations[id].state = "returned"

\* C9: a gemini-brainstorm-synthesis request with an empty history returns
\* an error payload and sends nothing upstream; the handler sends a prompt
\* upstream only for a history of at least one round.
C9_SynthesisNeedsHistory ==
    \A id \in Invocations :
        LET inv == invocations[id] IN
        inv.tool = "gemini-brainstorm-synthesis"
          => /\ inv.sent # <<>> => Len(inv.history) >= 1
             /\ (inv.history = <<>> /\ inv.state = "returned") => inv.result.isError

\* The history fields of an entry.
HistoryFields == {"claudeInput", "geminiResponse"}

\* The characters of field f of history entry k in prompt p, in order.
FieldChars(p, f, k) ==
    LET OfField(t) == t.f = f /\ t.e = k IN SelectSeq(p, OfField)

\* In prompt p, the first n characters of `field` stand together and the
\* elision marker follows them.
CutAndMarked(p, field, n) ==
    \E q \in 1..Len(p) :
        /\ p[q] = field[1]
        /\ q + n <= Len(p)
        /\ \A j \in 1..n : p[q + j - 1] = field[j]
        /\ p[q + n] = Marker[1]

\* C10: truncation.  In every prompt that gemini-brainstorm (round > 1) or
\* gemini-brainstorm-synthesis has sent, each field of each history entry
\* appears as exactly its first min(length, 500) characters, followed by the
\* elision marker; no character beyond position 500 of a history field is in
\* the prompt, and an entry contributes at most 2 * 500 characters.
C10_Truncation ==
    \A id \in Invocations :
        LET inv == invocations[id] IN
        (inv.sent # <<>> /\ (inv.tool = "gemini-brainstorm-synthesis" \/ inv.round > 1))
          => \A k \in 1..Len(inv.history) :
               /\ \A f \in HistoryFields :
                    LET field == inv.history[k][f]
                        n == Min(Len(field), TruncLimit)
                        p == inv.sent[1].prompt
                    IN /\ FieldChars(p, f, k) = SubSeq(field, 1, n)
                       /\ \A q \in 1..Len(p) :
                            (p[q].f = f /\ p[q].e = k) => p[q].i <= TruncLimit
                       /\ CutAndMarked(p, field, n)
               /\ Len(SelectSeq(inv.sent[1].prompt, LAMBDA t : t.e = k)) <= 2 * TruncLimit

\* C10 happens: a round after the first has rendered an entry whose two
\* fields are longer than the bound.
C10_Witness ==
    \E id \in Invocations :
        LET inv == invocations[id] IN
        /\ inv.tool = "gemini-brainstorm"
        /\ inv.round > 1
        /\ inv.sent # <<>>
        /\ Len(inv.history) >= 1
        /\ Len(inv.history[1].claudeInput) > TruncLimit
        /\ Len(inv.history[1].geminiResponse) > TruncLimit

\* Prompt p holds the literal text s of a template.
HasLit(p, s) == \E q \in 1..Len(p) : p[q] = Lit(s)[1]
\* The literal texts that open a transcript section and one of its entries.
TranscriptLits ==
    {"Here's a summary of the previous rounds:\n",
     "Here's the complete conversation history:\n", "\nRound "}

\* C11: round-1 shape.  A gemini-brainstorm request of round 1, whatever its
\* claudeInput and history, has sent exactly one prompt, to the Pro handle;
\* the prompt holds the problem statement in full, no character of the caller
\* input or of a history field and no transcript section; and when the
\* upstream call has resolved, the handler has returned its text unchanged as
\* a success payload.
C11_RoundOneShape ==
    \A id \in Invocations :
        LET inv == invocations[id] IN
        (inv.tool = "gemini-brainstorm" /\ inv.round = 1)
          => /\ Len(inv.sent) = 1
             /\ inv.sent[1].model = "pro"
             /\ FieldChars(inv.sent[1].prompt, "prompt", 0) = inv.prompt
             /\ \A q \in 1..Len(inv.sent[1].prompt) :
                  inv.sent[1].prompt[q].f \notin HistoryFields
             /\ \A l \in TranscriptLits : ~HasLit(inv.sent[1].prompt, l)
             /\ inv.sent[1].outcome.kind = "pending" <=> inv.state = "awaiting"
             /\ inv.sent[1].outcome.kind = "text"
                  => /\ inv.state = "returned"
                     /\ inv.result = Success(inv.sent[1].outcome.value)

\* C11 happens: round 1 with a caller input and a history supplied has
\* returned the model's text.
C11_Witness ==
    \E id \in Invocations :
        LET inv == invocations[id] IN
        /\ inv.tool = "gemini-brainstorm"
        /\ inv.round = 1
        /\ inv.claudeInput.defined
        /\ Len(inv.history) >= 1
        /\ inv.state = "returned"
        /\ ~inv.result.isError

\* Invocation id has returned an error payload.
ErrorReturned(id) == invocations[id].state = "returned" /\ invocations[id].result.isError

\* C12: per-call failure isolation.  A handler that has ended has returned
\* one payload with text, a success or an error with the flag; a rejection of
\* its upstream call has become the error payload "Error: " and the message;
\* a returned payload never changes; and the step in which a handler returns
\* an error leaves the process running, the connection Ready and the server
\* dispatching.
C12_FailureIsolation ==
    /\ [](\A id \in Invocations :
            LET inv == invocations[id] IN
            /\ inv.state \in {"awaiting", "returned"}
            /\ inv.state = "returned" => inv.result # NoResult /\ inv.result.text # <<>>
            /\ (inv.sent # <<>> /\ inv.sent[1].outcome.kind = "error")
                 => /\ inv.state = "returned"
                    /\ inv.result = Failure(Lit("Error: ") \o inv.sent[1].outcome.value))
    /\ [][/\ \A id \in Invocations :
               invocations[id].state = "returned" => invocations'[id] = invocations[id]
          /\ \A id \in 1..Len(invocations') :
               (ErrorReturned(id)' /\ ~(id \in Invocations /\ ErrorReturned(id)))
                 => /\ mainPc' = mainPc
                    /\ exitCode' = exitCode
                    /\ ConnectionState' = "Ready"
                    /\ Accepting'
       ]_vars

\* C12 happens: one request ended in an upstream failure, another was served.
C12_Witness ==
    /\ Alive
    /\ Len(invocations) = 2
    /\ invocations[1].sent # <<>>
    /\ invocations[1].sent[1].outcome.kind = "error"
    /\ invocations[1].result.isError
    /\ invocations[2].state = "returned"
    /\ ~invocations[2].result.isError

C14_PausePlacement ==
    /\ [](/\ pauses = Cardinality({a \in Attempts : AttemptFailed(a) /\ a < maxAttempts})
          /\ Len(conn) = IF initPc = "pause" THEN pauses
                         ELSE IF conn = <<>> THEN 0 ELSE pauses + 1
          /\ initError.kind = "ConnectionExhausted" => pauses = maxAttempts - 1
          /\ initPc \in {"idle", "done", "thrown"} => (conn = <<>> <=> initPc # "done" /\ initError.kind # "ConnectionExhausted"))
    /\ [][/\ pauses' # pauses
               => /\ pauses' = pauses + 1
                  /\ initPc = "race" /\ initPc' = "pause"
                  /\ Len(conn) < maxAttempts
                  /\ AttemptFailed(Len(conn))'
          /\ Len(conn') > Len(conn)
               => IF conn = <<>> THEN pauses = 0 ELSE initPc = "pause"
          /\ (initPc = "pause" /\ initPc' # "pause")
               => Len(conn') = Len(conn) + 1 /\ initPc' = "race"
          /\ initPc \in {"done", "thrown"} => pauses' = pauses /\ initPc' = initPc
       ]_vars

\* C14 happens: three failed attempts with two pauses between them.
C14_Witness ==
    /\ initError.kind = "ConnectionExhausted"
    /\ Len(conn) = 3
    /\ pauses = 2

\* The arguments of invocation id.
Arguments(id) ==
    <<invocations[id].tool, invocations[id].prompt, invocations[id].round,
      invocations[id].claudeInput, invocations[id].history>>
\* The prompts invocation id has sent upstream.
PromptsSent(id) ==
    [k \in 1..Len(invocations[id].sent) |-> invocations[id].sent[k].prompt]
\* What the upstream calls of invocation id have settled with.
OutcomesOf(id) ==
    [k \in 1..Len(invocations[id].sent) |-> invocations[id].sent[k].outcome]

Cut(field) == SubSeq(field, 1, Min(Len(field), TruncLimit))

\* What a transcript of history h shows of its entries, from entry k on: for
\* each entry the "Round" label, its round number, its cut caller text and
\* its cut model text.
RECURSIVE EntriesShown(_, _)
EntriesShown(h, k) ==
    IF k > Len(h) THEN <<>>
    ELSE Lit("\nRound ") \o Num(h[k].round) \o Cut(h[k].claudeInput)
           \o Cut(h[k].geminiResponse) \o EntriesShown(h, k + 1)

\* The part of prompt p that labels rounds or quotes history fields.
TranscriptPart(p) ==
    LET Shown(t) == t.f = "\nRound " \/ t.f = "number" \/ t.e >= 1
    IN SelectSeq(p, Shown)

\* C16: collaboration prompt.  A gemini-brainstorm request of a round after
\* the first with a caller input has sent exactly one prompt, to the Pro
\* handle.  The prompt holds the problem statement and the caller input in
\* full; it names the current round and then lists every history entry once,
\* in the order given, each under its own round number with its cut caller
\* text and its cut model text; it has the transcript heading exactly when
\* the history is not empty.  When the upstream call has resolved, the
\* handler has returned its text as a success payload.
C16_CollaborationPrompt ==
    \A id \in Invocations :
        LET inv == invocations[id] IN
        (inv.tool = "gemini-brainstorm" /\ inv.round > 1 /\ ~Falsy(inv.claudeInput))
          => /\ Len(inv.sent) = 1
             /\ inv.sent[1].model = "pro"
             /\ LET p == inv.sent[1].prompt IN
                /\ FieldChars(p, "prompt", 0) = inv.prompt
                /\ FieldChars(p, "claudeInput", 0) = inv.claudeInput.text
                /\ TranscriptPart(p) = Num(inv.round) \o EntriesShown(inv.history, 1)
                /\ HasLit(p, "Here's a summary of the previous rounds:\n")
                     <=> Len(inv.history) > 0
             /\ inv.sent[1].outcome.kind = "text"
                  => inv.state = "returned" /\ inv.result = Success(inv.sent[1].outcome.value)

\* C16 happens: round 2 with a caller input longer than the bound and a
\* history of two rounds has returned the model's text.
C16_Witness ==
    \E id \in Invocations :
        LET inv == invocations[id] IN
        /\ inv.tool = "gemini-brainstorm"
        /\ inv.round = 2
        /\ inv.claudeInput.defined
        /\ Len(inv.claudeInput.text) > TruncLimit
        /\ Len(inv.history) = 2
        /\ Len(inv.history[2].claudeInput) > TruncLimit
        /\ inv.state = "returned"
        /\ ~inv.result.isError

\* C17: non-interference of concurrent invocations.  While requests are
\* served the handles and the connection state are as initGeminiClient left
\* them; a step changes the record of at most one invocation, and a new
\* request changes none; requests with the same arguments have sent the same
\* prompts; and each handler has returned what its own upstream call settled
\* with, the text on a reply and the error payload on a rejection.
C17_NonInterference ==
    /\ [](/\ <<genAI, geminiProModel, geminiFlashModel>> = <<"client", "pro", "flash">>
          /\ ConnectionState = "Ready"
          /\ \A i \in Invocations : \A j \in Invocations :
               Arguments(i) = Arguments(j) => PromptsSent(i) = PromptsSent(j)
          /\ \A i \in Invocations :
               LET inv == invocations[i] IN
               (inv.state = "returned" /\ inv.sent # <<>>)
                 => inv.result =
                      IF inv.sent[1].outcome.kind = "text"
                      THEN Success(inv.sent[1].outcome.value)
                      ELSE Failure(Lit("Error: ") \o inv.sent[1].outcome.value))
    /\ [][/\ UNCHANGED <<genAI, geminiProModel, geminiFlashModel, initPc, connected>>
          /\ \A i \in Invocations :
               /\ i \in 1..Len(invocations')
               /\ invocations'[i] # invocations[i]
                    => /\ Len(invocations') = Len(invocations)
                       /\ \A j \in Invocations \ {i} : invocations'[j] = invocations[j]
       ]_vars

\* C17 happens: of two requests that called upstream, the later one failed
\* and the earlier one returned the reply its own call was given.
C17_Witness ==
    /\ Len(invocations) = 2
    /\ invocations[1].sent # <<>> /\ invocations[2].sent # <<>>
    /\ invocations[2].state = "returned"
    /\ invocations[2].result.isError
    /\ invocations[1].state = "returned"
    /\ invocations[1].result = Success(Lit("B"))

\* C18: the losing timer cannot undo a success.  From the step in which the
\* connection is Ready on, it stays Ready with connected set, and no step
\* starts an attempt or a pause, changes the attempt counter or the outcome
\* of an attempt, or raises an error; a step in which a 10-second timer
\* fires, that of the successful attempt or of an earlier one, leaves
\* index.ts where it is.
C18_LosingTimer ==
    /\ [](ConnectionState = "Ready"
            => /\ connected
               /\ conn[Len(conn)].race = "truthy"
               /\ initError = NoError)
    /\ [][ConnectionState = "Ready"
            => /\ ConnectionState' = "Ready"
               /\ UNCHANGED <<connected, attempts, pauses, initError>>
               /\ Len(conn') = Len(conn)
               /\ raceOutcomes' = raceOutcomes
               /\ (\E a \in Attempts : conn[a].timer = "pending" /\ conn'[a].timer = "fired")
                    => UNCHANGED mainVars
       ]_vars

\* C18 happens: after a rejected first attempt and a successful second one,
\* the timers of both have fired.
C18_Witness ==
    /\ ConnectionState = "Ready"
    /\ Len(conn) = 2
    /\ conn[1].race \in UpstreamErrors
    /\ conn[1].timer = "fired"
    /\ conn[2].race = "truthy"
    /\ conn[2].timer = "fired"

\* C19: initGeminiClient terminates.  Given that the timers of the event
\* loop fire, a connection that is Connecting becomes Ready or Failed, also
\* when no validation call ever settles; and initGeminiClient never makes
\* more than 3 attempts or takes more than 2 pauses.
C19_Terminates ==
    /\ [](Len(conn) <= maxAttempts /\ pauses <= maxAttempts - 1)
    /\ (ConnectionState = "Connecting") ~> (ConnectionState \in {"Ready", "Failed"})

\* C19 happens: the upstream API answered none of the three validation calls
\* and initGeminiClient has ended.
C19_Witness ==
    /\ ConnectionState = "Failed"
    /\ Len(conn) = 3
    /\ \A a \in Attempts : conn[a].call = "pending" /\ conn[a].race = MsgTimeout

\* In prompt p the elision marker stands right after the last rendered
\* character of field f of history entry k.
MarkerFollows(p, f, k) ==
    \E q \in 1..(Len(p) - 1) :
        /\ p[q].f = f /\ p[q].e = k
        /\ p[q + 1] = Marker[1]

\* C20: the elision marker marks cut fields only.  In every transcript that
\* gemini-brainstorm (round > 1) or gemini-brainstorm-synthesis has rendered,
\* a history field is followed by the elision marker if and only if the field
\* is longer than 500 characters; a field of at most 500 characters is
\* rendered in full and without the marker.
C20_MarkerOnlyWhenCut ==
    \A id \in Invocations :
        LET inv == invocations[id] IN
        (inv.sent # <<>> /\ (inv.tool = "gemini-brainstorm-synthesis" \/ inv.round > 1))
          => \A k \in 1..Len(inv.history) : \A f \in HistoryFields :
               LET field == inv.history[k][f]
                   p == inv.sent[1].prompt
               IN /\ MarkerFollows(p, f, k) <=> Len(field) > TruncLimit
                  /\ Len(field) <= TruncLimit
                       => FieldChars(p, f, k) = field /\ ~MarkerFollows(p, f, k)

====
